---- MODULE Spec2Model ----
(***************************************************************************)
(* Model of the operator command tool client/src/main.rs of the            *)
(* solana-dex-amm repository: one run of main() from the settings file to  *)
(* process exit, for both subcommands.                                     *)
(*                                                                         *)
(* main.rs is modelled from its source.  The instruction builders          *)
(* create_config_account / ownerwithdraw (makidex_amm::instruction) and    *)
(* send_txn (instructions::rpc) are modelled from the design document      *)
(* (sections 4.2, 4.3 and 7), within the interface main.rs calls them      *)
(* through.                                                                *)
(***************************************************************************)
EXTENDS Integers, Sequences, FiniteSets, TLC

VARIABLES
    ini,          \* contents of client_config.ini: field -> raw string
    cfgFile,      \* TRUE iff client_config.ini can be loaded
    files,        \* key files on disk: path field -> readable?
    argv,         \* the command line, by what clap makes of it
    pc,           \* position of main()
    cfg,          \* pool_config, the ClientConfig returned by load_cfg
    keypairs,     \* key material loaded so far (sequence of keypair names)
    command,      \* opts.command once parsed
    derived,      \* addresses derived so far
    instr,        \* the instruction built by the selected arm
    recent_hash,  \* the blockhash fetched at line 277 / 322
    txn,          \* the signed transaction
    latest,       \* the network's current blockhash (a counter)
    calls,        \* how many times each step has run
    broadcasts,   \* every payload put on the wire: [txn, stale]
    status,       \* last transaction status observed by polling
    sendResult,   \* what send_txn returned
    stdout,       \* lines written to standard output
    errKind,      \* the error the process reported ("none" if none)
    exitCode      \* process exit code, -1 while running

vars == <<ini, cfgFile, files, argv, pc, cfg, keypairs, command, derived, instr,
          recent_hash, txn, latest, calls, broadcasts, status, sendResult,
          stdout, errKind, exitCode>>

----------------------------------------------------------------------------
(* Bounds of the model *)

\* at most this many things are wrong with the inputs of one run
MaxFaults == 1
\* attempt budget of the submission step of send_txn
MaxAttempts == 2
\* number of status polls before send_txn gives up waiting
MaxPolls == 2
\* how many times the blockhash can roll over during one run
MaxHash == 2

----------------------------------------------------------------------------
(* Addresses.  Every address is a record of one shape so that any two can  *)
(* be compared: a plain key, an associated token address or a program      *)
(* derived address.  The derivations are injective constructors: distinct  *)
(* inputs give distinct addresses, as for the hash based originals.        *)

Key(name) == [kind |-> "key", a |-> name, b |-> ""]

\* spl_associated_token_account::get_associated_token_address(owner, mint)
get_associated_token_address(owner, mint) ==
    [kind |-> "ata", a |-> owner.a, b |-> mint.a]

\* Pubkey::find_program_address(&[seed], program_id), the address part
find_program_address(seed, program_id) ==
    [kind |-> "pda", a |-> seed, b |-> program_id.a]

AMM_CONFIG_SEED == "amm_config_account_seed"
AUTHORITY_AMM == "amm authority"

SystemProgram == Key("system_program")
RentSysvar == Key("sysvar_rent")

\* Pubkey::default(), the all-zero key
DefaultPubkey == Key("11111111111111111111111111111111")

----------------------------------------------------------------------------
(* The settings file *)

StrFields == {"http_url", "ws_url", "payer_path", "admin_path", "withdrawer_path"}
PathFields == {"payer_path", "admin_path", "withdrawer_path"}
GlobalKeyFields == {"raydium_program", "pnl_owner", "withdrawer", "admin_key"}
WithdrawFields == {"amm_pool", "amm_open_orders", "amm_coin_vault", "amm_pc_vault",
                   "amm_target_orders", "coin_mint", "pc_mint"}
KeyFields == GlobalKeyFields \cup WithdrawFields
Fields == StrFields \cup KeyFields

\* the order in which load_cfg reads the fields
FieldOrder == <<"http_url", "ws_url", "payer_path", "admin_path", "withdrawer_path",
                "raydium_program", "pnl_owner", "withdrawer", "admin_key",
                "amm_pool", "amm_open_orders", "amm_coin_vault", "amm_pc_vault",
                "amm_target_orders", "coin_mint", "pc_mint">>

\* raw values a field can have in the file
Missing == "<no such key>"
Empty == ""
NotBase58 == "not-a-base58-key"

\* the base58 strings that decode to a 32 byte key
ValidKeyStrings == {"P", "D", "A", "W1", "W2", "M1", "M2", "pool", "open_orders",
                    "coin_vault", "pc_vault", "target_orders"}

\* Pubkey::from_str
PubkeyFromStr(s) ==
    IF s \in ValidKeyStrings THEN [ok |-> TRUE, key |-> Key(s)]
                             ELSE [ok |-> FALSE, key |-> DefaultPubkey]

FieldBad(i, f) ==
    \/ i[f] = Missing                               \* config.get(..).unwrap()
    \/ i[f] = Empty                                 \* panic!("<f> must not be empty")
    \/ f \in KeyFields /\ ~PubkeyFromStr(i[f]).ok   \* Pubkey::from_str(..).unwrap()

\* position of the first field load_cfg panics on, 0 if there is none
FirstBad(i) ==
    LET bad == {k \in 1..Len(FieldOrder) : FieldBad(i, FieldOrder[k])}
    IN  IF bad = {} THEN 0 ELSE CHOOSE k \in bad : \A j \in bad : k <= j

ParsedCfg(i) ==
    [f \in Fields |-> IF f \in KeyFields THEN PubkeyFromStr(i[f]).key ELSE i[f]]

NoCfg == [f \in Fields |-> IF f \in KeyFields THEN DefaultPubkey ELSE Empty]

\* a load_cfg that checks the string fields only and lets an absent, empty
\* or undecodable address fall back to Pubkey::default()
load_cfg_unwrap_or_default(fileOk, i) ==
    LET bad == {k \in 1..Len(FieldOrder) :
                    FieldOrder[k] \in StrFields /\ FieldBad(i, FieldOrder[k])}
    IN  IF ~fileOk \/ bad # {}
        THEN [ok |-> FALSE, cfg |-> NoCfg]
        ELSE [ok |-> TRUE, cfg |-> ParsedCfg(i)]

\* load_cfg: Ok(ClientConfig), or a panic at the first bad field
load_cfg(fileOk, i) ==
    IF ~fileOk \/ FirstBad(i) # 0
    THEN [ok |-> FALSE, cfg |-> NoCfg]
    ELSE [ok |-> TRUE, cfg |-> ParsedCfg(i)]

----------------------------------------------------------------------------
(* Key files *)

\* a main that loads only the key that signs
KeyFilesRead_payer_only == <<"payer_path", "payer_path">>

\* the key files main reads, in order: payer, admin, withdrawer (229-231)
\* and the payer file once more for the anchor wallet (247)
KeyFilesRead == <<"payer_path", "admin_path", "withdrawer_path", "payer_path">>

KeypairAt(path) ==
    CASE path = "payer_path" -> "payer"
      [] path = "admin_path" -> "admin"
      [] OTHER -> "withdrawer"

\* Keypair::pubkey()
Pubkey(kp) ==
    CASE kp = "payer" -> Key("B")
      [] kp = "admin" -> Key("Akp")
      [] OTHER -> Key("Wkp")

\* read_keypair_file
read_keypair_file(fs, path) ==
    IF fs[path] THEN [ok |-> TRUE, keypair |-> KeypairAt(path)]
               ELSE [ok |-> FALSE, keypair |-> ""]

\* how many of the reads succeed before the first failure
ReadsDone(fs, order) ==
    LET bad == {k \in 1..Len(order) : ~read_keypair_file(fs, order[k]).ok}
    IN  IF bad = {} THEN Len(order)
        ELSE (CHOOSE k \in bad : \A j \in bad : k <= j) - 1

----------------------------------------------------------------------------
(* Instructions *)

\* AccountMeta
Meta(k, signer, writable) ==
    [pubkey |-> k, is_signer |-> signer, is_writable |-> writable]

NoInstr == [program_id |-> DefaultPubkey, accounts |-> <<>>, data |-> ""]

\* makidex_amm::instruction::create_config_account (design document 4.2)
create_config_account(program, admin, payer, config, pnl_owner) ==
    [program_id |-> program,
     accounts |-> << Meta(config, FALSE, TRUE),
                     Meta(admin, FALSE, FALSE),
                     Meta(payer, TRUE, TRUE),
                     Meta(pnl_owner, FALSE, FALSE),
                     Meta(SystemProgram, FALSE, FALSE),
                     Meta(RentSysvar, FALSE, FALSE) >>,
     data |-> "CreateConfigAccount"]

\* makidex_amm::instruction::ownerwithdraw (design document 4.2)
ownerwithdraw(program, pool, authority, open_orders, coin_mint, pc_mint, coin_vault, pc_vault, user_coin, user_pc, withdrawer, target_orders, payer) ==
    [program_id |-> program,
     accounts |-> << Meta(pool, FALSE, TRUE),
                     Meta(authority, FALSE, FALSE),
                     Meta(open_orders, FALSE, TRUE),
                     Meta(coin_vault, FALSE, TRUE),
                     Meta(pc_vault, FALSE, TRUE),
                     Meta(coin_mint, FALSE, FALSE),
                     Meta(pc_mint, FALSE, FALSE),
                     Meta(user_coin, FALSE, TRUE),
                     Meta(user_pc, FALSE, TRUE),
                     Meta(withdrawer, FALSE, FALSE),
                     Meta(target_orders, FALSE, TRUE),
                     Meta(payer, TRUE, FALSE) >>,
     data |-> "OwnerWithdraw"]

\* the CreateConfigAccount arm with the admin keypair in the administrator
\* slot (the commented-out &admin.pubkey() of line 269)
CreateConfigArm_admin_keypair(c) ==
    LET amm_config_key == find_program_address(AMM_CONFIG_SEED, c.raydium_program)
    IN  [derived |-> {amm_config_key},
         instr |-> create_config_account(c.raydium_program, Pubkey("admin"),
                                         Pubkey("payer"), amm_config_key,
                                         c.pnl_owner)]

\* the CreateConfigAccount arm, lines 259-273
CreateConfigArm(c) ==
    LET amm_config_key == find_program_address(AMM_CONFIG_SEED, c.raydium_program)
    IN  [derived |-> {amm_config_key},
         instr |-> create_config_account(c.raydium_program, c.admin_key,
                                         Pubkey("payer"), amm_config_key,
                                         c.pnl_owner)]

\* the OwnerWithdrawPool arm with user_token_pc_key derived from the coin mint
OwnerWithdrawArm_coin_twice(c) ==
    LET amm_authority_key == find_program_address(AUTHORITY_AMM, c.raydium_program)
        user_token_coin_key == get_associated_token_address(c.withdrawer, c.coin_mint)
        user_token_pc_key == get_associated_token_address(c.withdrawer, c.coin_mint)
    IN  [derived |-> {amm_authority_key, user_token_coin_key, user_token_pc_key},
         instr |-> ownerwithdraw(c.raydium_program, c.amm_pool, amm_authority_key,
                                 c.amm_open_orders, c.coin_mint, c.pc_mint,
                                 c.amm_coin_vault, c.amm_pc_vault,
                                 user_token_coin_key, user_token_pc_key,
                                 c.withdrawer, c.amm_target_orders,
                                 Pubkey("payer"))]

\* the OwnerWithdrawPool arm, lines 289-318
OwnerWithdrawArm(c) ==
    LET amm_authority_key == find_program_address(AUTHORITY_AMM, c.raydium_program)
        user_token_coin_key == get_associated_token_address(c.withdrawer, c.coin_mint)
        user_token_pc_key == get_associated_token_address(c.withdrawer, c.pc_mint)
    IN  [derived |-> {amm_authority_key, user_token_coin_key, user_token_pc_key},
         instr |-> ownerwithdraw(c.raydium_program, c.amm_pool, amm_authority_key,
                                 c.amm_open_orders, c.coin_mint, c.pc_mint,
                                 c.amm_coin_vault, c.amm_pc_vault,
                                 user_token_coin_key, user_token_pc_key,
                                 c.withdrawer, c.amm_target_orders,
                                 Pubkey("payer"))]

----------------------------------------------------------------------------
(* Transactions *)

NoTxn == [fee_payer |-> DefaultPubkey, instructions |-> <<>>,
          recent_blockhash |-> -1, signed_by |-> {}]

\* a transaction carrying the instruction twice
TxnInstructions_twice(i) == <<i, i>>

\* &vec![create_instr] / &vec![withdraw_instr]
TxnInstructions(i) == <<i>>

\* let signers = vec![&payer];
Signers == {"payer"}

\* the keys a message needs signatures of: the fee payer and every account
\* an instruction flags as signer
RequiredSigners(instructions, payer) ==
    {payer} \cup UNION { { instructions[k].accounts[j].pubkey :
                              j \in {m \in 1..Len(instructions[k].accounts) :
                                         instructions[k].accounts[m].is_signer} } :
                          k \in 1..Len(instructions) }

\* Transaction::new_with_payer: the message assembled but never signed
new_with_payer_unsigned(instructions, payer, signers, hash) ==
    [ok |-> TRUE,
     txn |-> [fee_payer |-> payer, instructions |-> instructions,
              recent_blockhash |-> hash, signed_by |-> {}]]

\* Transaction::new_signed_with_payer: signs with every keypair given and
\* panics unless they are exactly the keys the message requires
new_signed_with_payer(instructions, payer, signers, hash) ==
    LET keys == {Pubkey(kp) : kp \in signers}
    IN  IF keys = RequiredSigners(instructions, payer)
        THEN [ok |-> TRUE,
              txn |-> [fee_payer |-> payer, instructions |-> instructions,
                       recent_blockhash |-> hash, signed_by |-> keys]]
        ELSE [ok |-> FALSE, txn |-> NoTxn]

\* the transaction identifier: the fee payer's signature over the message
NoId == [hash |-> -1, ops |-> <<>>]
TxId(t) == [hash |-> t.recent_blockhash,
            ops |-> [k \in 1..Len(t.instructions) |-> t.instructions[k].data]]

\* lines of standard output
Banner == [kind |-> "banner", id |-> NoId]      \* println!("Starting...")
HelpText == [kind |-> "help", id |-> NoId]      \* clap's help, on --help
TxIdLine(id) == [kind |-> "txid", id |-> id]    \* println!("{}", signature)

----------------------------------------------------------------------------
(* send_txn and what main does with its result *)

\* send_txn(&rpc_client, &txn, true): the third argument
NoConfirmation == FALSE
RequireConfirmation == TRUE

OkResult(t) == [ok |-> TRUE, sig |-> TxId(t), err |-> "none"]
ErrResult(e) == [ok |-> FALSE, sig |-> NoId, err |-> e]
NoResult == [ok |-> FALSE, sig |-> NoId, err |-> "pending"]

\* main with the error of send_txn replaced by one message, the way
\* read_keypair_file replaces its error
ReportSendResult_map_err(r) ==
    IF r.ok THEN [exit |-> 0, err |-> "none", out |-> <<TxIdLine(r.sig)>>]
            ELSE [exit |-> 1, err |-> "SendFailed", out |-> <<>>]

\* let signature = send_txn(..)?; println!("{}", signature); Ok(())
ReportSendResult(r) ==
    IF r.ok THEN [exit |-> 0, err |-> "none", out |-> <<TxIdLine(r.sig)>>]
            ELSE [exit |-> 1, err |-> r.err, out |-> <<>>]

\* Opts::parse() on the command line
Commands == {"CreateConfigAccount", "OwnerWithdrawPool"}
ArgvClasses == Commands \cup {"--help", "<unknown subcommand>"}

----------------------------------------------------------------------------
(* The inputs of a run *)

Withdrawers == {"W1", "W2"}
Mints == {"M1", "M2"}

GoodIni(w, m1, m2) ==
    [f \in Fields |->
        CASE f = "http_url" -> "http://rpc"
          [] f = "ws_url" -> "ws://rpc"
          [] f = "payer_path" -> "payer.json"
          [] f = "admin_path" -> "admin.json"
          [] f = "withdrawer_path" -> "withdrawer.json"
          [] f = "raydium_program" -> "P"
          [] f = "pnl_owner" -> "D"
          [] f = "withdrawer" -> w
          [] f = "admin_key" -> "A"
          [] f = "amm_pool" -> "pool"
          [] f = "amm_open_orders" -> "open_orders"
          [] f = "amm_coin_vault" -> "coin_vault"
          [] f = "amm_pc_vault" -> "pc_vault"
          [] f = "amm_target_orders" -> "target_orders"
          [] f = "coin_mint" -> m1
          [] OTHER -> m2]

\* what can be wrong: a field of the settings file, a key file, the file itself
FieldFaults ==
    {<<f, v>> : f \in Fields, v \in {Missing, Empty}}
        \cup {<<f, NotBase58>> : f \in KeyFields}
FileFaults == {<<f, "unreadable">> : f \in PathFields \cup {"client_config.ini"}}
FaultSpace == FieldFaults \cup FileFaults

RECURSIVE FaultSets(_)
FaultSets(n) ==
    IF n = 0 THEN {{}}
    ELSE LET smaller == FaultSets(n - 1)
         IN  smaller \cup
             {F \cup {x} : F \in smaller, x \in FaultSpace}

\* at most one fault per field and per file
Consistent(F) ==
    \A x, y \in F :
        (x[1] = y[1] /\ (x \in FileFaults) = (y \in FileFaults)) => x = y

FaultyIni(good, F) ==
    [f \in Fields |->
        IF \E x \in F \cap FieldFaults : x[1] = f
        THEN (CHOOSE x \in F \cap FieldFaults : x[1] = f)[2]
        ELSE good[f]]

StepNames == {"load_cfg", "read_keypair_file", "parse", "build",
              "get_latest_blockhash", "sign", "send", "poll"}

Init ==
    /\ \E w \in Withdrawers, m1 \in Mints, m2 \in Mints :
       \E F \in {G \in FaultSets(MaxFaults) : Consistent(G)} :
          /\ ini = FaultyIni(GoodIni(w, m1, m2), F)
          /\ cfgFile = (<<"client_config.ini", "unreadable">> \notin F)
          /\ files = [f \in PathFields |-> <<f, "unreadable">> \notin F]
    /\ argv \in ArgvClasses
    /\ pc = "start"
    /\ cfg = NoCfg
    /\ keypairs = <<>>
    /\ command = "none"
    /\ derived = {}
    /\ instr = NoInstr
    /\ recent_hash = -1
    /\ txn = NoTxn
    /\ latest = 0
    /\ calls = [s \in StepNames |-> 0]
    /\ broadcasts = {}
    /\ status = "none"
    /\ sendResult = NoResult
    /\ stdout = <<>>
    /\ errKind = "none"
    /\ exitCode = -1

Called(s) == [calls EXCEPT ![s] = @ + 1]

\* the process ends: a panic (101), an Err out of main (1), clap (0 or 2)
\* or Ok(()) out of main (0)
Exit(code, kind) ==
    /\ pc' = "exit"
    /\ exitCode' = code
    /\ errKind' = kind

NetCalls == calls["get_latest_blockhash"] + calls["send"] + calls["poll"]

----------------------------------------------------------------------------
(* main, lines 224-335 *)

\* 225-227: the banner, then load_cfg(..).unwrap()
LoadCfg ==
    /\ pc = "start"
    /\ stdout' = Append(stdout, Banner)
    /\ calls' = Called("load_cfg")
    /\ LET r == load_cfg(cfgFile, ini)
       IN  IF r.ok
           THEN /\ cfg' = r.cfg
                /\ pc' = "keys"
                /\ UNCHANGED <<exitCode, errKind>>
           ELSE /\ Exit(101, "Panic")
                /\ UNCHANGED cfg
    /\ UNCHANGED <<ini, cfgFile, files, argv, keypairs, command, derived, instr,
                   recent_hash, txn, latest, broadcasts, status, sendResult>>

\* 229-249: the three keypairs, the rpc client, the anchor wallet and program
ReadKeys ==
    /\ pc = "keys"
    /\ LET n == ReadsDone(files, KeyFilesRead)
       IN  /\ keypairs' = [k \in 1..n |-> read_keypair_file(files, KeyFilesRead[k]).keypair]
           /\ calls' = [calls EXCEPT !["read_keypair_file"] =
                            IF n = Len(KeyFilesRead) THEN n ELSE n + 1]
           /\ IF n = Len(KeyFilesRead)
              THEN pc' = "parse" /\ UNCHANGED <<exitCode, errKind>>
              ELSE Exit(1, "KeypairReadError")
    /\ UNCHANGED <<ini, cfgFile, files, argv, cfg, command, derived, instr,
                   recent_hash, txn, latest, broadcasts, status, sendResult, stdout>>

\* 251: Opts::parse(), which ends the process itself on --help (code 0, the
\* help on standard output) and on a command line it cannot parse (code 2)
ParseOpts ==
    /\ pc = "parse"
    /\ calls' = Called("parse")
    /\ IF argv \in Commands
       THEN /\ command' = argv
            /\ pc' = "build"
            /\ UNCHANGED <<exitCode, errKind, stdout>>
       ELSE IF argv = "--help"
       THEN /\ Exit(0, "none")
            /\ stdout' = Append(stdout, HelpText)
            /\ UNCHANGED command
       ELSE /\ Exit(2, "UsageError")
            /\ UNCHANGED <<command, stdout>>
    /\ UNCHANGED <<ini, cfgFile, files, argv, cfg, keypairs, derived, instr,
                   recent_hash, txn, latest, broadcasts, status, sendResult>>

\* 253-273
BuildCreateConfig ==
    /\ pc = "build"
    /\ command = "CreateConfigAccount"
    /\ LET arm == CreateConfigArm(cfg)
       IN  derived' = arm.derived /\ instr' = arm.instr
    /\ calls' = Called("build")
    /\ pc' = "fetch"
    /\ UNCHANGED <<ini, cfgFile, files, argv, cfg, keypairs, command, recent_hash,
                   txn, latest, broadcasts, status, sendResult, stdout, errKind,
                   exitCode>>

\* 287-318
BuildOwnerWithdraw ==
    /\ pc = "build"
    /\ command = "OwnerWithdrawPool"
    /\ LET arm == OwnerWithdrawArm(cfg)
       IN  derived' = arm.derived /\ instr' = arm.instr
    /\ calls' = Called("build")
    /\ pc' = "fetch"
    /\ UNCHANGED <<ini, cfgFile, files, argv, cfg, keypairs, command, recent_hash,
                   txn, latest, broadcasts, status, sendResult, stdout, errKind,
                   exitCode>>

\* 277 / 322: rpc_client.get_latest_blockhash()?  One call; an error leaves
\* main through the question mark
FetchBlockhash ==
    /\ pc = "fetch"
    /\ calls' = Called("get_latest_blockhash")
    /\ \E answered \in BOOLEAN :
          IF answered
          THEN /\ recent_hash' = latest
               /\ pc' = "sign"
               /\ UNCHANGED <<exitCode, errKind>>
          ELSE /\ Exit(1, "NetworkError")
               /\ UNCHANGED recent_hash
    /\ UNCHANGED <<ini, cfgFile, files, argv, cfg, keypairs, command, derived,
                   instr, txn, latest, broadcasts, status, sendResult, stdout>>

\* 278-283 / 323-328
SignTxn ==
    /\ pc = "sign"
    /\ calls' = Called("sign")
    /\ LET r == new_signed_with_payer(TxnInstructions(instr), Pubkey("payer"),
                                      Signers, recent_hash)
       IN  IF r.ok
           THEN /\ txn' = r.txn
                /\ pc' = "send"
                /\ UNCHANGED <<exitCode, errKind>>
           ELSE /\ Exit(101, "Panic")
                /\ UNCHANGED txn
    /\ UNCHANGED <<ini, cfgFile, files, argv, cfg, keypairs, command, derived,
                   instr, recent_hash, latest, broadcasts, status, sendResult,
                   stdout>>

----------------------------------------------------------------------------
(* The network, and send_txn (design document 4.3 steps 4-5 and section 7) *)

\* a blockhash fetched in an earlier validity window has expired
Expired(hash) == hash < latest

\* time passes between the fetch and the submission
ExpireBlockhash ==
    /\ pc \in {"sign", "send"}
    /\ latest < MaxHash
    /\ latest' = latest + 1
    /\ UNCHANGED <<ini, cfgFile, files, argv, pc, cfg, keypairs, command, derived,
                   instr, recent_hash, txn, calls, broadcasts, status, sendResult,
                   stdout, errKind, exitCode>>

\* step 4: the signed payload goes on the wire as it was handed in.  A timeout
\* is retried within the attempt budget; the network never accepts a payload
\* whose blockhash has expired
SendAttempt ==
    /\ pc = "send"
    /\ calls' = Called("send")
    /\ broadcasts' = broadcasts \cup
                        {[txn |-> txn, stale |-> Expired(txn.recent_blockhash)]}
    /\ \E answer \in {"accepted", "timeout", "rejected"} :
          /\ Expired(txn.recent_blockhash) => answer # "accepted"
          /\ CASE answer = "accepted" ->
                    IF RequireConfirmation
                    THEN pc' = "poll" /\ UNCHANGED sendResult
                    ELSE pc' = "returned" /\ sendResult' = OkResult(txn)
               [] answer = "rejected" ->
                    pc' = "returned" /\ sendResult' = ErrResult("RejectedTransaction")
               [] OTHER ->
                    IF calls'["send"] < MaxAttempts
                    THEN pc' = "send" /\ UNCHANGED sendResult
                    ELSE pc' = "returned" /\ sendResult' = ErrResult("NetworkError")
    /\ UNCHANGED <<ini, cfgFile, files, argv, cfg, keypairs, command, derived,
                   instr, recent_hash, txn, latest, status, stdout, errKind,
                   exitCode>>

\* step 5: poll until a terminal status or until the wait budget is spent
PollStatus ==
    /\ pc = "poll"
    /\ calls' = Called("poll")
    /\ \E seen \in {"pending", "confirmed", "failed"} :
          /\ status' = seen
          /\ CASE seen = "confirmed" ->
                    pc' = "returned" /\ sendResult' = OkResult(txn)
               [] seen = "failed" ->
                    pc' = "returned" /\ sendResult' = ErrResult("RejectedTransaction")
               [] OTHER ->
                    IF calls'["poll"] < MaxPolls
                    THEN pc' = "poll" /\ UNCHANGED sendResult
                    ELSE pc' = "returned" /\ sendResult' = ErrResult("AmbiguousTimeout")
    /\ UNCHANGED <<ini, cfgFile, files, argv, cfg, keypairs, command, derived,
                   instr, recent_hash, txn, latest, broadcasts, stdout, errKind,
                   exitCode>>

\* 284-285 / 329-330 and 334
Finish ==
    /\ pc = "returned"
    /\ LET rep == ReportSendResult(sendResult)
       IN  /\ stdout' = stdout \o rep.out
           /\ Exit(rep.exit, rep.err)
    /\ UNCHANGED <<ini, cfgFile, files, argv, cfg, keypairs, command, derived,
                   instr, recent_hash, txn, latest, calls, broadcasts, status,
                   sendResult>>

Next ==
    \/ LoadCfg
    \/ ReadKeys
    \/ ParseOpts
    \/ BuildCreateConfig
    \/ BuildOwnerWithdraw
    \/ FetchBlockhash
    \/ SignTxn
    \/ ExpireBlockhash
    \/ SendAttempt
    \/ PollStatus
    \/ Finish

Spec == Init /\ [][Next]_vars

----------------------------------------------------------------------------
(* Vocabulary of the properties, stated over the inputs and the outputs *)

Done == pc = "exit"

TxIdPrinted == \E k \in 1..Len(stdout) : stdout[k].kind = "txid"

BroadcastTxns == {b.txn : b \in broadcasts}

AccountsOf(t) ==
    UNION { {t.instructions[k].accounts[j] : j \in 1..Len(t.instructions[k].accounts)} :
            k \in 1..Len(t.instructions) }

\* the signer-flagged accounts of a transaction, the fee payer among them
SignerFlagged(t) ==
    {t.fee_payer} \cup {m.pubkey : m \in {x \in AccountsOf(t) : x.is_signer}}

\* the inputs as the operator wrote them
InP == Key(ini["raydium_program"])
InA == Key(ini["admin_key"])
InD == Key(ini["pnl_owner"])
InW == Key(ini["withdrawer"])
InM1 == Key(ini["coin_mint"])
InM2 == Key(ini["pc_mint"])
PayerKey == Key("B")
AdminKeypairKey == Key("Akp")

KeyFileOrder == <<"payer_path", "admin_path", "withdrawer_path">>
UnreadableAt == {k \in 1..3 : ~files[KeyFileOrder[k]]}

\* a required address or key parameter is absent, empty or malformed
BadAddressOrKey ==
    \/ \E f \in KeyFields : ini[f] \notin ValidKeyStrings
    \/ \E f \in PathFields : ini[f] \in {Missing, Empty}
    \/ UnreadableAt # {}

\* anything at all is wrong with the settings or the key files
BadInput ==
    \/ ~cfgFile
    \/ \E f \in Fields : ini[f] \in {Missing, Empty}
    \/ BadAddressOrKey

OpcodeOf(cmd) ==
    IF cmd = "CreateConfigAccount" THEN "CreateConfigAccount" ELSE "OwnerWithdraw"

----------------------------------------------------------------------------
(* C1: a transaction signed over an expired blockhash is never put on the  *)
(* wire: when the fetched blockhash expires before the submission, a new   *)
(* one is fetched and the transaction signed again first.                  *)
C1_StaleNeverBroadcast ==
    \A b \in broadcasts : ~b.stale

(* C2: every transaction that reaches the broadcast step is signed by      *)
(* every distinct signer-flagged account of its instruction, the fee payer *)
(* included; it never has fewer signatures than signer accounts.           *)
C2_SignatureCompleteness ==
    \A t \in BroadcastTxns :
        /\ SignerFlagged(t) \subseteq t.signed_by
        /\ Cardinality(t.signed_by) >= Cardinality(SignerFlagged(t))

C2_Witness ==
    /\ command = "OwnerWithdrawPool"
    /\ broadcasts # {}

(* C3: a timeout at the blockhash fetch or at the submission is retried    *)
(* within a bounded attempt budget; a fatal network failure is reported    *)
(* only after the failing step was tried again and its budget spent, and   *)
(* such a run never prints a transaction identifier nor exits with 0.      *)
C3_NetworkFailureAfterRetries ==
    (Done /\ errKind = "NetworkError") =>
        /\ IF calls["send"] = 0
           THEN calls["get_latest_blockhash"] > 1
           ELSE calls["send"] = MaxAttempts
        /\ calls["get_latest_blockhash"] <= MaxAttempts
        /\ calls["send"] <= MaxAttempts
        /\ ~TxIdPrinted
        /\ exitCode # 0

(* C4: when a submitted transaction shows no terminal status within the    *)
(* wait budget, polling stops and the run ends with the outcome            *)
(* AmbiguousTimeout, which is reported for no other run and is neither the *)
(* confirmed success (exit 0, identifier printed) nor a rejection or a     *)
(* network failure.                                                        *)
C4_AmbiguousTimeout ==
    /\ calls["poll"] <= MaxPolls
    /\ (Done /\ calls["poll"] = MaxPolls /\ status = "pending") =>
            /\ errKind = "AmbiguousTimeout"
            /\ exitCode # 0
            /\ ~TxIdPrinted
    /\ (Done /\ status # "pending") => errKind # "AmbiguousTimeout"
    /\ (Done /\ calls["poll"] < MaxPolls) => errKind # "AmbiguousTimeout"

C4_Witness ==
    /\ Done
    /\ calls["poll"] = MaxPolls
    /\ status = "pending"
    /\ errKind = "AmbiguousTimeout"

(* C5, as claimed, for a run of either subcommand: exit code 0 only if the *)
(* transaction was confirmed, nonzero on every failure; on success the     *)
(* transaction identifier is the only line on standard output, on failure  *)
(* none is written.                                                        *)
C5_Original ==
    (Done /\ argv \in Commands) =>
        /\ exitCode = 0 =>
              /\ status = "confirmed"
              /\ stdout = <<TxIdLine(TxId(txn))>>
        /\ exitCode # 0 => ~TxIdPrinted
        /\ status # "confirmed" => exitCode # 0

(* C5, amended: exit code 0 only if the transaction was confirmed or the   *)
(* command line asked for help (nothing is submitted then); every other    *)
(* run exits nonzero.  On success standard output is the banner line       *)
(* followed by the transaction identifier and nothing else; a run that     *)
(* exits nonzero writes no transaction identifier.                         *)
C5_ExitCodeAndOutput ==
    Done =>
        /\ exitCode = 0 =>
              \/ /\ status = "confirmed"
                 /\ stdout = <<Banner, TxIdLine(TxId(txn))>>
              \/ /\ argv = "--help"
                 /\ broadcasts = {}
                 /\ stdout = <<Banner, HelpText>>
        /\ exitCode # 0 => ~TxIdPrinted
        /\ (status # "confirmed" /\ argv # "--help") => exitCode # 0

C5_Witness ==
    /\ Done
    /\ exitCode = 0
    /\ status = "confirmed"
    /\ TxIdPrinted

(* C6: with a required address or key parameter absent, empty or           *)
(* malformed, the run fails without a single network call (no blockhash    *)
(* fetch, no submission, no status query) and the step that failed ran     *)
(* once.                                                                   *)
C6_PreconditionBeforeNetwork ==
    BadAddressOrKey =>
        /\ NetCalls = 0
        /\ pc \notin {"fetch", "sign", "send", "poll", "returned"}
        /\ calls["load_cfg"] <= 1
        /\ \A k \in UnreadableAt : calls["read_keypair_file"] <= k
        /\ Done => exitCode # 0

C6_Witness ==
    /\ Done
    /\ ini["coin_mint"] = NotBase58
    /\ calls["load_cfg"] = 1

(* C7: a run that ends in success has broadcast exactly one transaction,   *)
(* holding exactly one instruction; no run broadcasts more than one        *)
(* transaction, nor one for the subcommand that was not selected.          *)
C7_OneOperation ==
    /\ Cardinality(BroadcastTxns) <= 1
    /\ \A t \in BroadcastTxns :
          /\ Len(t.instructions) = 1
          /\ argv \in Commands
          /\ \A k \in 1..Len(t.instructions) : t.instructions[k].data = OpcodeOf(argv)
    /\ (Done /\ exitCode = 0 /\ TxIdPrinted) => Cardinality(BroadcastTxns) = 1

C7_Witness ==
    /\ Done
    /\ exitCode = 0
    /\ TxIdPrinted
    /\ calls["send"] > 1

(* C8: in the OwnerWithdrawPool path the user-coin and user-pc accounts of *)
(* the instruction are the associated token addresses of (W, M1) and       *)
(* (W, M2), writable and not signers, and the withdrawer W is a read-only  *)
(* account that does not sign.                                             *)
C8_WithdrawDestinations ==
    (command = "OwnerWithdrawPool" /\ pc \notin {"build"}) =>
        /\ Len(instr.accounts) = 12
        /\ instr.accounts[8] = Meta(get_associated_token_address(InW, InM1), FALSE, TRUE)
        /\ instr.accounts[9] = Meta(get_associated_token_address(InW, InM2), FALSE, TRUE)
        /\ instr.accounts[10] = Meta(InW, FALSE, FALSE)
        /\ \A t \in BroadcastTxns : t.instructions = <<instr>> /\ InW \notin t.signed_by

C8_Witness ==
    /\ command = "OwnerWithdrawPool"
    /\ ini["coin_mint"] # ini["pc_mint"]
    /\ broadcasts # {}

(* C9: in the CreateConfigAccount path the config address is the address   *)
(* derived from the config seed under program P, the account list is       *)
(* [C(writable), A, B(signer, writable), D, system, rent] in this order,   *)
(* the payer is the only signer (the admin keypair does not sign), and a   *)
(* confirmed transaction ends the run with its identifier printed.         *)
C9_CreateConfig ==
    (command = "CreateConfigAccount" /\ pc \notin {"build"}) =>
        /\ instr.program_id = InP
        /\ instr.accounts =
              << Meta(find_program_address(AMM_CONFIG_SEED, InP), FALSE, TRUE),
                 Meta(InA, FALSE, FALSE),
                 Meta(PayerKey, TRUE, TRUE),
                 Meta(InD, FALSE, FALSE),
                 Meta(SystemProgram, FALSE, FALSE),
                 Meta(RentSysvar, FALSE, FALSE) >>
        /\ \A t \in BroadcastTxns :
              /\ t.instructions = <<instr>>
              /\ t.signed_by = {PayerKey}
              /\ AdminKeypairKey \notin t.signed_by
        /\ (Done /\ status = "confirmed") =>
              /\ exitCode = 0
              /\ stdout[Len(stdout)] = TxIdLine(TxId(txn))

C9_Witness ==
    /\ command = "CreateConfigAccount"
    /\ Done
    /\ status = "confirmed"

(* C10: whichever subcommand is selected, a bad field of either section of *)
(* the settings file or an unreadable payer, admin or withdrawer key file  *)
(* ends the run before the subcommand is parsed, before any address is     *)
(* derived and before any transaction is built.                            *)
C10_AllInputsRequired ==
    BadInput =>
        /\ calls["parse"] = 0
        /\ command = "none"
        /\ derived = {}
        /\ instr = NoInstr
        /\ txn = NoTxn
        /\ Done => exitCode # 0

C10_Witness ==
    /\ Done
    /\ argv = "CreateConfigAccount"
    /\ \/ ini["pc_mint"] = Empty
       \/ ~files["withdrawer_path"]

====
